---- MODULE Spec2Model ----
(***************************************************************************)
(* Gamma-exposure (GEX) level computation of the GEX_API repository.       *)
(*                                                                         *)
(* The repository holds five iterations of the same batch computation,     *)
(* calculate_gex_levels / process_options_data:                            *)
(*   "v1"   src/Old Files/calculate_gex.py                                 *)
(*   "v2.0" src/calculate_gex_v2.py                                        *)
(*   "v2.1" src/calculate_gex_v2.1_FIXED.py                                *)
(*   "v2.2" src/Old Files/calculate_gex_v2.2.py                            *)
(*   "v2.3" src/Old Files/calculate_gex_v2.3_DEBUG.py                      *)
(* The variable version says which script runs on the loaded snapshot.     *)
(* v2.0 reads the file as a dict expiration -> {calls, puts} and takes the *)
(* price from a live quote; here the same contents are held in the two     *)
(* expiration maps (same keys, same order) and in underlyingPrice.         *)
(*                                                                         *)
(* Numbers.  Strikes, prices, open interest and gamma are integers here    *)
(* (gamma in an arbitrary fixed unit); every value the code derives by a   *)
(* division (the interpolated zero gamma, v2.0's net GEX in thousands) is  *)
(* an exact fraction [num, den] in lowest terms with den > 0.  Python      *)
(* floats are modelled as exact reals.                                     *)
(*                                                                         *)
(* Dictionaries.  A Python dict is a sequence of entries in insertion      *)
(* order with unique keys, because max()/min() over .items() return the    *)
(* first extremal entry in that order.                                     *)
(***************************************************************************)
EXTENDS Integers, Sequences, FiniteSets, TLC

VARIABLES
    version,       \* which script is run
    data,          \* the loaded options_chain_raw.json snapshot
    pc,            \* position inside the computation
    dte_0_exp,     \* expiration selected (v2.3 dte_0_exp, v2.0 target_exp)
    strikes_data,  \* dict strike -> aggregate, in insertion order
    calls,         \* v2.0: list of call records
    puts,          \* v2.0: list of put records
    levels,        \* the level set being built and returned
    nq_levels,     \* the levels converted to the correlated instrument
    ratio,         \* the conversion ratio used
    nq_price,      \* convert_to_nq: the correlated price it works with
    other,         \* a second invocation of calculate_gex_levels (v2.3)
    auth           \* a SchwabAuth object, tokens.json and the clock

vars == <<version, data, pc, dte_0_exp, strikes_data, calls, puts, levels,
          nq_levels, ratio, nq_price, other, auth>>

\* Python's None.  Where a number is expected None is -1: every number the
\* scripts hold in such a place (a strike, a price, a DTE) is non-negative.
\* Where a fraction is expected None is NoneRat, the fraction with den = 0.
None == -1
NoneRat == [num |-> 0, den |-> 0]
\* min() of an empty list: a ValueError instead of a value
Raise == [num |-> 1, den |-> 0]

----------------------------------------------------------------------------
(* Program constants *)

MINIMUM_OI == 100
ROUND_TO == 25
\* is_access_token_valid: buffer = timedelta(minutes=2), in minutes
buffer == 2
\* save_tokens: token_data.get('expires_in', 1800), in minutes
default_expires_in == 30
\* v2.0 calculate_dynamic_ratio: the price assumed when a live quote fails
estimated_qqq == 610

(* Bounds of the model *)

NumStrikes == 3
MaxContracts == 3
MaxContractsMulti == 3
MaxContractsConvert == 2
MaxContractsMissing == 2
MaxContractsMalformed == 1
MaxContractsConcurrent == 1
MaxTicks == 2
MaxCalls == 2
MaxContractsPutKeys == 2
\* mantissa length of the floating-point numbers of SpecFloat
MantissaBits == 4

Versions == {"v1", "v2.0", "v2.1", "v2.2", "v2.3"}

----------------------------------------------------------------------------
(* Exact fractions *)

Abs(x) == IF x < 0 THEN -x ELSE x

RECURSIVE GCD(_, _)
GCD(a, b) == IF b = 0 THEN a ELSE GCD(b, a % b)

Rat(n, d) ==
    LET g == GCD(Abs(n), Abs(d))
        s == IF d < 0 THEN -1 ELSE 1
    IN  [num |-> (s * n) \div g, den |-> (s * d) \div g]

R(n) == [num |-> n, den |-> 1]

RatLE(a, b) == a.num * b.den <= b.num * a.den

RatMul(a, b) == Rat(a.num * b.num, a.den * b.den)

RatDiv(a, b) == Rat(a.num * b.den, a.den * b.num)

RatAbs(a) == [num |-> Abs(a.num), den |-> a.den]

RatSub(a, b) == Rat(a.num * b.den - b.num * a.den, a.den * b.den)

\* Mutant of PyRound: truncation towards minus infinity.
PyFloor(x) == x.num \div x.den

\* Python 3 round(x) of a number x: the nearest integer, a tie going to the
\* even one.
PyRound(x) ==
    LET lo == x.num \div x.den
        r2 == 2 * (x.num % x.den)
    IN  IF r2 < x.den THEN lo
        ELSE IF r2 > x.den THEN lo + 1
        ELSE IF lo % 2 = 0 THEN lo ELSE lo + 1

----------------------------------------------------------------------------
(* Sequence helpers *)

Range(s) == {s[i] : i \in DOMAIN s}

RECURSIVE SetToSortedSeq(_)
SetToSortedSeq(S) ==
    IF S = {} THEN <<>>
    ELSE LET m == CHOOSE x \in S : \A y \in S : x <= y
         IN  <<m>> \o SetToSortedSeq(S \ {m})

Reverse(s) == [i \in 1..Len(s) |-> s[Len(s) + 1 - i]]

RECURSIVE SumSeq(_)
SumSeq(s) == IF s = <<>> THEN 0 ELSE Head(s) + SumSeq(Tail(s))

\* Python max(seq, key=...): index of the first entry whose key is maximal.
FirstMax(keys) ==
    CHOOSE i \in DOMAIN keys :
        /\ \A j \in DOMAIN keys : keys[j] <= keys[i]
        /\ \A j \in 1..(i - 1) : keys[j] < keys[i]

\* Python min(seq, key=...): index of the first entry whose key is minimal.
FirstMin(keys) ==
    CHOOSE i \in DOMAIN keys :
        /\ \A j \in DOMAIN keys : keys[i] <= keys[j]
        /\ \A j \in 1..(i - 1) : keys[i] < keys[j]

----------------------------------------------------------------------------
(* The snapshot: options_chain_raw.json as the scripts read it.            *)
(* callExpDateMap / putExpDateMap: sequence (dict order) of                *)
(*   [exp |-> days to expiration of the key "date:dte",                    *)
(*    strikes |-> sequence (dict order) of contracts[0] per strike]        *)
(* A contract is [strike, openInterest, gamma]; a contract of the file     *)
(* that lacks a field lacks it here.                                       *)

Strikes == 9..(8 + NumStrikes)
Prices == {10, 20}
\* the strikes of the two-strike scenario (price 602)
ScenarioStrikes == {600, 605}
DTEs == {0, 1, 2}
Sides == {"call", "put"}

Kinds ==
    { [openInterest |-> 50,  gamma |-> 1],
      [openInterest |-> 100, gamma |-> 1],
      [openInterest |-> 200, gamma |-> 2],
      [openInterest |-> 100, gamma |-> 0] }

\* The contracts a chain f (slot <<side, exp, strike>> -> kind) lists for one
\* side of one expiration, in ascending or descending strike order.
ContractsAt(f, side, e, order) ==
    LET ss  == SetToSortedSeq({s \in Strikes \cup ScenarioStrikes :
                                  <<side, e, s>> \in DOMAIN f})
        asc == [i \in DOMAIN ss |-> [strike |-> ss[i]] @@ f[<<side, e, ss[i]>>]]
    IN  IF order = "asc" THEN asc ELSE Reverse(asc)

ExpDateMap(keys, f, side, order) ==
    [i \in DOMAIN keys |->
        [exp |-> keys[i], strikes |-> ContractsAt(f, side, keys[i], order)]]

Snapshot(p, nq, keys, f, order) ==
    [underlyingPrice |-> p,
     nq_price        |-> nq,
     callExpDateMap  |-> ExpDateMap(keys, f, "call", order),
     putExpDateMap   |-> ExpDateMap(keys, f, "put", order)]

\* Chains of at most n contracts over the expirations keys and strikes ss.
Chains(keys, ss, n, kinds) ==
    UNION { [S -> kinds] :
            S \in {T \in SUBSET (Sides \X Range(keys) \X ss) : Cardinality(T) <= n} }

ExpKeys(map) == [i \in DOMAIN map |-> map[i].exp]

\* data[map][key] when the key is present, an empty dict otherwise
StrikesOf(map, key) ==
    IF \E i \in DOMAIN map : map[i].exp = key
    THEN map[CHOOSE i \in DOMAIN map : map[i].exp = key].strikes
    ELSE <<>>

\* Mutant of Get: an absent field reads as 1 instead of 0.
GetOrOne(c, field) == IF field \in DOMAIN c THEN c[field] ELSE 1

\* contract.get(field, 0)
Get(c, field) == IF field \in DOMAIN c THEN c[field] ELSE 0

\* load_options_data returned None (options_chain_raw.json not found)
NotLoaded == [not_found |-> TRUE]

\* json.load gave an empty dict
EmptyDict == [k \in {} |-> None]

\* main: if not data: return
DataFalsy(d) == "not_found" \in DOMAIN d \/ DOMAIN d = {}

\* data.get(key, default)
DataGet(d, key, default) == IF key \in DOMAIN d THEN d[key] ELSE default

\* data[key] under the guard  if key in data  (no key: nothing is iterated)
ExpMap(d, key) == IF key \in DOMAIN d THEN d[key] ELSE <<>>

\* the default of data.get('underlyingPrice', ...): 0 in v1, 610.0 later
DefaultUnderlying(v) == IF v = "v1" THEN 0 ELSE 610

----------------------------------------------------------------------------
(* Expiration selection *)

\* Mutant of get_0dte_expiration: without a 0DTE key the fallback is the
\* first key in file order instead of the smallest DTE.
get_0dte_or_first(d) ==
    LET keys == ExpKeys(ExpMap(d, "callExpDateMap"))
    IN  IF \E i \in DOMAIN keys : keys[i] = 0
        THEN 0
        ELSE IF keys # <<>> THEN keys[1] ELSE None

\* Mutant of get_0dte_expiration: the keys are those of putExpDateMap.
get_0dte_from_puts(d) ==
    LET keys == ExpKeys(ExpMap(d, "putExpDateMap"))
    IN  IF \E i \in DOMAIN keys : keys[i] = 0
        THEN 0
        ELSE IF keys # <<>>
             THEN SetToSortedSeq(Range(keys))[1]
             ELSE None

\* v2.3 get_0dte_expiration: the first key whose DTE part is '0'; otherwise
\* the first key of the list sorted by int(DTE); None without any key.
get_0dte_expiration(d) ==
    LET keys == ExpKeys(ExpMap(d, "callExpDateMap"))
    IN  IF \E i \in DOMAIN keys : keys[i] = 0
        THEN keys[CHOOSE i \in DOMAIN keys :
                    keys[i] = 0 /\ \A j \in 1..(i - 1) : keys[j] # 0]
        ELSE IF keys # <<>>
             THEN SetToSortedSeq(Range(keys))[1]
             ELSE None

\* v2.0 process_options_data: expirations[0], the first key in file order
target_exp(d) ==
    LET keys == ExpKeys(d.callExpDateMap)
    IN  IF keys = <<>> THEN None ELSE keys[1]

----------------------------------------------------------------------------
(* Per-strike aggregation (dict strikes_data) *)

EmptyEntry(s) ==
    [strike |-> s, call_oi |-> 0, put_oi |-> 0, call_gamma |-> 0,
     put_gamma |-> 0, call_gex |-> 0, put_gex |-> 0]

Find(sd, s) ==
    IF \E i \in DOMAIN sd : sd[i].strike = s
    THEN CHOOSE i \in DOMAIN sd : sd[i].strike = s
    ELSE 0

\* if strike not in strikes_data: strikes_data[strike] = {...zeros...}
Ensure(sd, s) == IF Find(sd, s) = 0 THEN Append(sd, EmptyEntry(s)) ELSE sd

\* gamma * oi * 100 * price * price * 0.01  (v2.2, v2.3); the factors 100
\* and 0.01 cancel
FullGex(gamma, oi, p) == gamma * oi * p * p

\* gamma * oi  (v1, v2.1)
PlainGex(gamma, oi) == gamma * oi

\* gamma * oi * 100  (v2.0)
ContractGex(gamma, oi) == gamma * oi * 100

\* The exposure one call contract contributes in script v.
CallGex(v, gamma, oi, p) ==
    IF v \in {"v2.2", "v2.3"} THEN FullGex(gamma, oi, p) ELSE PlainGex(gamma, oi)

\* Mutant of PutGex: the put exposure is not negated.
PutGexUnsigned(v, gamma, oi, p) ==
    IF v \in {"v2.2", "v2.3"} THEN FullGex(gamma, oi, p) ELSE PlainGex(gamma, oi)

\* The exposure one put contract contributes in script v.
PutGex(v, gamma, oi, p) ==
    IF v \in {"v2.2", "v2.3"} THEN -FullGex(gamma, oi, p) ELSE -PlainGex(gamma, oi)

\* Mutant of Skipped: a contract at exactly MINIMUM_OI is dropped too.
SkippedInclusive(v, oi) == v # "v1" /\ oi <= MINIMUM_OI

\* Mutant of Skipped: only contracts without open interest are dropped.
SkippedOnlyEmpty(v, oi) == v # "v1" /\ oi <= 0

\* The per-contract activity filter: v1 has none.
Skipped(v, oi) == v # "v1" /\ oi < MINIMUM_OI

\* One iteration of the CALLS loop.
ProcessCall(sd, c, v, p) ==
    LET oi    == Get(c, "openInterest")
        gamma == Get(c, "gamma")
    IN  IF Skipped(v, oi) THEN sd
        ELSE LET sd1 == Ensure(sd, c.strike)
                 i   == Find(sd1, c.strike)
                 e   == sd1[i]
             IN  IF v = "v2.2"
                 THEN [sd1 EXCEPT ![i] =
                         [e EXCEPT !.call_oi    = e.call_oi + oi,
                                   !.call_gamma = e.call_gamma + gamma,
                                   !.call_gex   = e.call_gex + CallGex(v, gamma, oi, p)]]
                 ELSE [sd1 EXCEPT ![i] =
                         [e EXCEPT !.call_oi    = oi,
                                   !.call_gamma = gamma,
                                   !.call_gex   = CallGex(v, gamma, oi, p)]]

\* One iteration of the PUTS loop.
ProcessPut(sd, c, v, p) ==
    LET oi    == Get(c, "openInterest")
        gamma == Get(c, "gamma")
    IN  IF Skipped(v, oi) THEN sd
        ELSE LET sd1 == Ensure(sd, c.strike)
                 i   == Find(sd1, c.strike)
                 e   == sd1[i]
             IN  IF v = "v2.2"
                 THEN [sd1 EXCEPT ![i] =
                         [e EXCEPT !.put_oi    = e.put_oi + oi,
                                   !.put_gamma = e.put_gamma + gamma,
                                   !.put_gex   = e.put_gex + PutGex(v, gamma, oi, p)]]
                 ELSE [sd1 EXCEPT ![i] =
                         [e EXCEPT !.put_oi    = oi,
                                   !.put_gamma = gamma,
                                   !.put_gex   = PutGex(v, gamma, oi, p)]]

\* for strike_price, contracts in strikes.items(): ...
RECURSIVE ProcessStrikes(_, _, _, _, _)
ProcessStrikes(sd, cs, side, v, p) ==
    IF cs = <<>> THEN sd
    ELSE ProcessStrikes(
            IF side = "call" THEN ProcessCall(sd, Head(cs), v, p)
                             ELSE ProcessPut(sd, Head(cs), v, p),
            Tail(cs), side, v, p)

\* for exp_date, strikes in data[map].items(): ...   (v1, v2.1, v2.2)
RECURSIVE ProcessExpirations(_, _, _, _, _)
ProcessExpirations(sd, map, side, v, p) ==
    IF map = <<>> THEN sd
    ELSE ProcessExpirations(ProcessStrikes(sd, Head(map).strikes, side, v, p),
                            Tail(map), side, v, p)

\* v2.0 process_options_data: the list of records of one side of target_exp
RECURSIVE OptionRecords(_, _)
OptionRecords(cs, side) ==
    IF cs = <<>> THEN <<>>
    ELSE LET c     == Head(cs)
             oi    == Get(c, "openInterest")
             gamma == Get(c, "gamma")
             rest  == OptionRecords(Tail(cs), side)
         IN  IF oi < MINIMUM_OI THEN rest
             ELSE <<[strike |-> c.strike, oi |-> oi, gamma |-> gamma,
                     gex |-> IF side = "call" THEN ContractGex(gamma, oi)
                                              ELSE ContractGex(gamma, oi) * (-1)]>>
                  \o rest

----------------------------------------------------------------------------
(* Level extraction *)

Column(sd, field) == [i \in DOMAIN sd |-> sd[i][field]]

\* Mutant of Positive: entries equal to zero are candidates too.
NotNegative(sd, field) == LET Test(e) == e[field] >= 0 IN SelectSeq(sd, Test)

\* [(s, d[field]) for s, d in strikes_data.items() if d[field] > 0]
Positive(sd, field) == LET Test(e) == e[field] > 0 IN SelectSeq(sd, Test)

\* [(s, d[field]) for s, d in strikes_data.items() if d[field] < 0]
Negative(sd, field) == LET Test(e) == e[field] < 0 IN SelectSeq(sd, Test)

\* max(..., key=lambda x: x[1]) over the positive entries of a field; the
\* strike found, dflt for an empty list (v1 has no default: max() raises)
MaxLevel(sd, field, dflt) ==
    LET cand == Positive(sd, field)
    IN  IF cand = <<>> THEN dflt
        ELSE cand[FirstMax(Column(cand, field))].strike

\* min(..., key=lambda x: x[1]) over the negative entries of a field
MinLevel(sd, field, dflt) ==
    LET cand == Negative(sd, field)
    IN  IF cand = <<>> THEN dflt
        ELSE cand[FirstMin(Column(cand, field))].strike

\* sum(call_gex) + sum(put_gex)
NetGex(sd) == SumSeq(Column(sd, "call_gex")) + SumSeq(Column(sd, "put_gex"))

\* v2.0 find_call_oi_level / find_put_oi_level / find_pos_gex_level
find_max_level(recs, field) ==
    IF recs = <<>> THEN None
    ELSE recs[FirstMax(Column(recs, field))].strike

\* v2.0 find_neg_gex_level: max(puts, key=lambda x: abs(x['gex']))
find_neg_gex_level(recs) ==
    IF recs = <<>> THEN None
    ELSE recs[FirstMax([i \in DOMAIN recs |-> Abs(recs[i].gex)])].strike

\* v2.0 calculate_net_gex: (sum of call gex + sum of put gex) / 1000
calculate_net_gex(cs, ps) ==
    Rat(SumSeq(Column(cs, "gex")) + SumSeq(Column(ps, "gex")), 1000)

----------------------------------------------------------------------------
(* Zero gamma *)

\* [(strike, call_gex + put_gex) for strike in sorted(strikes_data.keys())]
NetByStrike(sd) ==
    LET ss == SetToSortedSeq({sd[i].strike : i \in DOMAIN sd})
    IN  [i \in DOMAIN ss |->
            [strike  |-> ss[i],
             net_gex |-> sd[Find(sd, ss[i])].call_gex + sd[Find(sd, ss[i])].put_gex,
             active  |-> sd[Find(sd, ss[i])].call_gex # 0
                         \/ sd[Find(sd, ss[i])].put_gex # 0]]

\* Mutant of Bracket: only a change from negative to positive counts.
BracketRising(g1, g2) == g1 <= 0 /\ 0 <= g2

\* (gex1 <= 0 <= gex2) or (gex2 <= 0 <= gex1)
Bracket(g1, g2) == (g1 <= 0 /\ 0 <= g2) \/ (g2 <= 0 /\ 0 <= g1)

\* Mutant of Interpolate: the weight taken with the wrong sign.
InterpolateWrongSign(s1, g1, s2, g2) ==
    IF g2 = g1 THEN R(s1)
    ELSE Rat(s1 * (g2 - g1) + (s2 - s1) * g1, g2 - g1)

\* strike1 if gex2 == gex1 else strike1 + (strike2-strike1) * (-gex1) / (gex2-gex1)
\* (the common factor of gex1 and gex2 is taken out first: the value is the
\* same and the products stay small)
Interpolate(s1, g1, s2, g2) ==
    IF g2 = g1 THEN R(s1)
    ELSE LET g == GCD(Abs(g1), Abs(g2))
             a == g1 \div g
             b == g2 \div g
         IN  Rat(s1 * (b - a) + (s2 - s1) * (-a), b - a)

\* v2.2 interpolate_zero_gamma: the loop returns at the first bracket
RECURSIVE ScanBrackets(_, _, _)
ScanBrackets(nets, i, p) ==
    IF i > Len(nets) - 1 THEN R(p)
    ELSE IF Bracket(nets[i].net_gex, nets[i + 1].net_gex)
         THEN Interpolate(nets[i].strike, nets[i].net_gex,
                          nets[i + 1].strike, nets[i + 1].net_gex)
         ELSE ScanBrackets(nets, i + 1, p)

interpolate_zero_gamma(sd, p) == ScanBrackets(NetByStrike(sd), 1, p)

\* v2.3 interpolate_zero_gamma_debug: the list of all crossings
RECURSIVE Crossings(_, _)
Crossings(nets, i) ==
    IF i > Len(nets) - 1 THEN <<>>
    ELSE IF Bracket(nets[i].net_gex, nets[i + 1].net_gex)
         THEN <<Interpolate(nets[i].strike, nets[i].net_gex,
                            nets[i + 1].strike, nets[i + 1].net_gex)>>
              \o Crossings(nets, i + 1)
         ELSE Crossings(nets, i + 1)

\* Mutant of PickCrossing: the last crossing instead of the first.
PickLastCrossing(crossings) == crossings[Len(crossings)]

\* the crossing v2.3 returns out of the list
PickCrossing(crossings) == crossings[1]

interpolate_zero_gamma_debug(sd, p) ==
    LET crossings == Crossings(NetByStrike(sd), 1)
    IN  IF crossings = <<>> THEN R(p) ELSE PickCrossing(crossings)

\* min_strike <= strike <= max_strike with price_range = price * 0.05
InBand(s, p) == 19 * p <= 20 * s /\ 20 * s <= 21 * p

\* v1 / v2.1: the strike of the band whose net GEX is closest to zero
\* (v2.1 keeps only strikes with call_gex != 0 or put_gex != 0)
NearestZeroInBand(sd, p, activeOnly) ==
    LET Test(n) == InBand(n.strike, p) /\ (activeOnly => n.active)
        cand    == SelectSeq(NetByStrike(sd), Test)
    IN  IF cand = <<>> THEN R(p)
        ELSE R(cand[FirstMin([i \in DOMAIN cand |-> Abs(cand[i].net_gex)])].strike)

\* v2.0 find_zero_gamma_level; Raise stands for min() of an empty list
find_zero_gamma_level(cs, ps, p) ==
    LET ss   == SetToSortedSeq({cs[i].strike : i \in DOMAIN cs}
                               \cup {ps[i].strike : i \in DOMAIN ps})
        cg(s) == IF \E i \in DOMAIN cs : cs[i].strike = s
                 THEN cs[CHOOSE i \in DOMAIN cs : cs[i].strike = s].gex ELSE 0
        pg(s) == IF \E i \in DOMAIN ps : ps[i].strike = s
                 THEN ps[CHOOSE i \in DOMAIN ps : ps[i].strike = s].gex ELSE 0
        nets == [i \in DOMAIN ss |-> [strike |-> ss[i], net_gex |-> cg(ss[i]) + pg(ss[i])]]
        Test(n) == 20 * Abs(n.strike - p) <= p
        band == SelectSeq(nets, Test)
        cand == IF band = <<>> THEN nets ELSE band
    IN  IF cand = <<>> THEN Raise
        ELSE R(cand[FirstMin([i \in DOMAIN cand |-> Abs(cand[i].net_gex)])].strike)

----------------------------------------------------------------------------
(* The computation, one action per stage of calculate_gex_levels (v1,      *)
(* v2.1, v2.2, v2.3) or of main (v2.0).  pc: "calls" -> "puts" -> "levels" *)
(* -> "zero" -> "done" -> "converted"; "failed" when the function returns  *)
(* None; "crashed" when a Python exception ends the script.                *)

\* Python truthiness of data.get('nq_price'): None and 0 are false
Truthy(x) == x # None /\ x # 0

\* The price the script works with: underlyingPrice of the snapshot; v2.0
\* works with the quote of calculate_dynamic_ratio, which is replaced by
\* estimated_qqq when the NQ quote is missing.
underlying_price ==
    IF version = "v2.0"
    THEN IF Truthy(data.nq_price) THEN data.underlyingPrice ELSE estimated_qqq
    ELSE DataGet(data, "underlyingPrice", DefaultUnderlying(version))

NoLevels ==
    [call_oi |-> None, pos_gex |-> None, zero_gamma |-> NoneRat, neg_gex |-> None,
     put_oi |-> None, qqq_price |-> None, net_gex |-> NoneRat, expiration_used |-> None]

\* main: the  if not data  return, then expiration selection and the CALLS loop.
ProcessCalls ==
    /\ pc = "calls"
    /\ UNCHANGED <<version, data, puts, levels, nq_levels, ratio, nq_price, other, auth>>
    /\ IF version # "v2.0" /\ DataFalsy(data)
       THEN /\ pc' = "failed"
            /\ UNCHANGED <<dte_0_exp, calls, strikes_data>>
       ELSE CASE version = "v2.3" ->
                   LET exp == get_0dte_expiration(data)
                   IN  /\ dte_0_exp' = exp
                       /\ calls' = calls
                       /\ IF exp = None
                          THEN /\ pc' = "failed"
                               /\ strikes_data' = strikes_data
                          ELSE /\ pc' = "puts"
                               /\ strikes_data' =
                                     ProcessStrikes(<<>>,
                                                    StrikesOf(ExpMap(data, "callExpDateMap"), exp),
                                                    "call", version, underlying_price)
              [] version = "v2.0" ->
                   LET exp == target_exp(data)
                   IN  /\ dte_0_exp' = exp
                       /\ strikes_data' = strikes_data
                       /\ IF exp = None
                          THEN /\ pc' = "levels"
                               /\ calls' = <<>>
                          ELSE /\ pc' = "puts"
                               /\ calls' = OptionRecords(StrikesOf(data.callExpDateMap, exp), "call")
              [] OTHER ->
                   /\ dte_0_exp' = dte_0_exp
                   /\ calls' = calls
                   /\ pc' = "puts"
                   /\ strikes_data' =
                         ProcessExpirations(<<>>, ExpMap(data, "callExpDateMap"), "call",
                                            version, underlying_price)

\* The PUTS loop.
ProcessPuts ==
    /\ pc = "puts"
    /\ pc' = "levels"
    /\ UNCHANGED <<version, data, dte_0_exp, calls, levels, nq_levels, ratio, nq_price, other, auth>>
    /\ CASE version = "v2.3" ->
              /\ puts' = puts
              /\ strikes_data' =
                    ProcessStrikes(strikes_data,
                                   StrikesOf(ExpMap(data, "putExpDateMap"), dte_0_exp),
                                   "put", version, underlying_price)
         [] version = "v2.0" ->
              /\ strikes_data' = strikes_data
              /\ puts' = OptionRecords(StrikesOf(data.putExpDateMap, dte_0_exp), "put")
         [] OTHER ->
              /\ puts' = puts
              /\ strikes_data' =
                    ProcessExpirations(strikes_data, ExpMap(data, "putExpDateMap"), "put",
                                       version, underlying_price)

\* v1: max()/min() of an empty candidate list raises ValueError
V1Raises ==
    \/ Positive(strikes_data, "call_oi") = <<>>
    \/ Positive(strikes_data, "put_oi") = <<>>
    \/ Positive(strikes_data, "call_gex") = <<>>
    \/ Negative(strikes_data, "put_gex") = <<>>

\* Totals and the four extremum levels.
ExtractLevels ==
    /\ pc = "levels"
    /\ UNCHANGED <<version, data, dte_0_exp, strikes_data, calls, puts, nq_levels, ratio, nq_price, other, auth>>
    /\ CASE version = "v2.0" ->
              /\ pc' = "zero"
              /\ levels' = [NoLevels EXCEPT
                    !.call_oi = find_max_level(calls, "oi"),
                    !.put_oi  = find_max_level(puts, "oi"),
                    !.pos_gex = find_max_level(calls, "gex"),
                    !.neg_gex = find_neg_gex_level(puts)]
         [] version = "v1" /\ V1Raises ->
              /\ pc' = "crashed"
              /\ levels' = levels
         [] OTHER ->
              /\ pc' = "zero"
              /\ levels' = [NoLevels EXCEPT
                    !.call_oi = MaxLevel(strikes_data, "call_oi", underlying_price),
                    !.put_oi  = MaxLevel(strikes_data, "put_oi", underlying_price),
                    !.pos_gex = MaxLevel(strikes_data, "call_gex", underlying_price),
                    !.neg_gex = MinLevel(strikes_data, "put_gex", underlying_price),
                    !.net_gex = IF version = "v1" THEN NoneRat ELSE R(NetGex(strikes_data))]

\* The zero gamma level, and the level set handed back.
ZeroGamma ==
    /\ pc = "zero"
    /\ UNCHANGED <<version, data, dte_0_exp, strikes_data, calls, puts, nq_levels, ratio, nq_price, other, auth>>
    /\ LET zg == CASE version = "v2.3" ->
                        interpolate_zero_gamma_debug(strikes_data, underlying_price)
                   [] version = "v2.2" ->
                        interpolate_zero_gamma(strikes_data, underlying_price)
                   [] version = "v2.1" ->
                        NearestZeroInBand(strikes_data, underlying_price, TRUE)
                   [] version = "v1" ->
                        NearestZeroInBand(strikes_data, underlying_price, FALSE)
                   [] OTHER ->
                        find_zero_gamma_level(calls, puts, underlying_price)
       IN  IF zg = Raise
           THEN /\ pc' = "crashed"
                /\ levels' = levels
           ELSE /\ pc' = "done"
                /\ levels' = [levels EXCEPT
                      !.zero_gamma = zg,
                      !.qqq_price = underlying_price,
                      !.net_gex = IF version = "v2.0"
                                  THEN calculate_net_gex(calls, puts) ELSE @,
                      !.expiration_used = IF version = "v2.3" THEN dte_0_exp ELSE @]

\* the fallback ratio written in script v
FallbackRatio(v) ==
    IF v \in {"v2.2", "v2.3"} THEN Rat(4135, 100) ELSE Rat(4136, 100)

\* Mutant of LivePrice: a non-positive price counts as supplied.
LivePriceAny(v, nq) == nq # None

\* v2.1-v2.3: if nq_price and nq_price > 0;  v1, v2.0: if nq_price
LivePrice(v, nq) ==
    IF v \in {"v1", "v2.0"} THEN Truthy(nq) ELSE Truthy(nq) /\ nq > 0

\* ratio = nq_price / qqq_price, or the fallback constant
calc_ratio(v, nq, qqq) ==
    IF LivePrice(v, nq) THEN Rat(nq, qqq) ELSE FallbackRatio(v)

\* nq_price as convert_to_nq holds it after the branch
calc_nq_price(v, nq, qqq) ==
    IF LivePrice(v, nq) THEN R(nq) ELSE RatMul(R(qqq), FallbackRatio(v))

\* Mutant of round_to_nearest: the rounded quotient is not scaled back.
round_to_count(value, nearest) == PyRound(RatDiv(value, R(nearest)))

\* Mutant of round_to_nearest: the multiple is taken with the opposite sign.
round_to_opposite(value, nearest) == -(PyRound(RatDiv(value, R(nearest))) * nearest)

\* round((qqq_strike * ratio) / ROUND_TO) * ROUND_TO
round_to_nearest(value, nearest) == PyRound(RatDiv(value, R(nearest))) * nearest

\* a level of the level set as a number (None stays None)
LevelNq(l, r) ==
    IF l = None THEN None ELSE round_to_nearest(RatMul(R(l), r), ROUND_TO)

NoNqLevels ==
    [call_oi |-> None, pos_gex |-> None, zero_gamma |-> None, neg_gex |-> None,
     put_oi |-> None]

\* the keys of the dict calculate_gex_levels returns (v2.0: the levels main
\* converts one by one)
LevelKeys(v) ==
    {"call_oi", "pos_gex", "zero_gamma", "neg_gex", "put_oi"}
    \cup (IF v = "v2.0" THEN {} ELSE {"qqq_price"})
    \cup (IF v \in {"v2.1", "v2.2", "v2.3"} THEN {"net_gex"} ELSE {})
    \cup (IF v = "v2.3" THEN {"expiration_used"} ELSE {})

\* Mutant of SkipKeys: only the price is left out of the conversion.
SkipOnlyPrice(v) == {"qqq_price"}

\* the keys the conversion loop leaves out
SkipKeys(v) ==
    CASE v = "v2.3" -> {"qqq_price", "net_gex", "expiration_used"}
      [] v \in {"v2.1", "v2.2"} -> {"qqq_price", "net_gex"}
      [] v = "v1" -> {"qqq_price"}
      [] OTHER -> {}

\* one iteration of  for level_name, qqq_strike in levels.items()
ItemNq(k, r) ==
    IF k \in {"zero_gamma", "net_gex"}
    THEN round_to_nearest(RatMul(levels[k], r), ROUND_TO)
    ELSE LevelNq(levels[k], r)

\* convert_to_nq (v1, v2.1-v2.3); ratio and level conversion of main (v2.0)
ConvertToNq ==
    /\ pc = "done"
    /\ pc' = "converted"
    /\ UNCHANGED <<version, data, dte_0_exp, strikes_data, calls, puts, levels, other, auth>>
    /\ LET r == calc_ratio(version, DataGet(data, "nq_price", None), levels.qqq_price)
       IN  /\ ratio' = r
           /\ nq_price' = calc_nq_price(version, DataGet(data, "nq_price", None),
                                   levels.qqq_price)
           /\ nq_levels' =
                 [k \in LevelKeys(version) \ SkipKeys(version) |-> ItemNq(k, r)]

Next == ProcessCalls \/ ProcessPuts \/ ExtractLevels \/ ZeroGamma \/ ConvertToNq

----------------------------------------------------------------------------
(* A second call of calculate_gex_levels (v2.3) on its own snapshot, whose  *)
(* steps interleave with the first.  other holds its arguments and locals. *)

\* no second invocation
NoOther == [pc |-> "idle"]

\* no SchwabAuth object
NoAuth == [pc |-> "idle"]

\* Mutant of FreshStrikes: the dict is a module-level one that both
\* invocations fill.
SharedStrikes(shared) == shared

\* strikes_data = {} : every invocation starts with its own empty dict
FreshStrikes(shared) == <<>>

\* underlying_price of the second invocation
OtherPrice == DataGet(other.data, "underlyingPrice", DefaultUnderlying("v2.3"))

OtherStep ==
    /\ other.pc \in {"calls", "puts", "levels", "zero"}
    /\ UNCHANGED <<version, data, pc, dte_0_exp, strikes_data, calls, puts, levels,
                   nq_levels, ratio, nq_price, auth>>
    /\ CASE other.pc = "calls" ->
              LET exp == get_0dte_expiration(other.data)
              IN  IF exp = None
                  THEN other' = [other EXCEPT !.pc = "failed"]
                  ELSE other' = [other EXCEPT
                          !.pc = "puts",
                          !.dte_0_exp = exp,
                          !.strikes_data =
                              ProcessStrikes(FreshStrikes(strikes_data),
                                  StrikesOf(ExpMap(other.data, "callExpDateMap"), exp),
                                  "call", "v2.3", OtherPrice)]
         [] other.pc = "puts" ->
              other' = [other EXCEPT
                  !.pc = "levels",
                  !.strikes_data =
                      ProcessStrikes(other.strikes_data,
                          StrikesOf(ExpMap(other.data, "putExpDateMap"), other.dte_0_exp),
                          "put", "v2.3", OtherPrice)]
         [] other.pc = "levels" ->
              other' = [other EXCEPT
                  !.pc = "zero",
                  !.levels = [NoLevels EXCEPT
                      !.call_oi = MaxLevel(other.strikes_data, "call_oi", OtherPrice),
                      !.put_oi  = MaxLevel(other.strikes_data, "put_oi", OtherPrice),
                      !.pos_gex = MaxLevel(other.strikes_data, "call_gex", OtherPrice),
                      !.neg_gex = MinLevel(other.strikes_data, "put_gex", OtherPrice),
                      !.net_gex = R(NetGex(other.strikes_data))]]
         [] other.pc = "zero" ->
              other' = [other EXCEPT
                  !.pc = "done",
                  !.levels = [other.levels EXCEPT
                      !.zero_gamma =
                          interpolate_zero_gamma_debug(other.strikes_data, OtherPrice),
                      !.qqq_price = OtherPrice,
                      !.expiration_used = other.dte_0_exp]]

NextConcurrent == Next \/ OtherStep

----------------------------------------------------------------------------
(* schwab_auth_with_refresh.py: class SchwabAuth, and token_helper.get_token *)
(* (auth = SchwabAuth(); return auth.get_valid_access_token()).  Times are  *)
(* minutes.  auth holds the object's fields, tokens.json (token_file), the  *)
(* clock (now), the value last returned (result), the number of refresh    *)
(* requests sent (requests) and the answer to the last call's request      *)
(* (response).                                                             *)

\* a token that is None (or missing from the file)
NoToken == ""

\* tokens.json does not exist
NoFile == [exists |-> FALSE]

FileExists(f) == "exists" \notin DOMAIN f

\* is_access_token_valid: token and expiry present, now < expiry - buffer
is_access_token_valid(a, now) ==
    /\ a.access_token # NoToken
    /\ a.token_expiry # None
    /\ now < a.token_expiry - buffer

\* What a refresh request can come to: an exception of requests.post, a
\* status other than 200, or status 200 with a token response that may lack
\* 'expires_in' (None) or 'refresh_token' (complete = FALSE).
RefreshOutcomes ==
    [status : {0, 401}, expires_in : {None}, complete : {TRUE}]
    \cup [status : {200}, expires_in : {None, 1, 2, 3}, complete : BOOLEAN]

\* no refresh request was sent
NoResponse == [status |-> None, expires_in |-> None, complete |-> TRUE]

\* Mutant of RefreshOk: the status of the response is not looked at.
RefreshOkAnyStatus(o) == o.complete

\* refresh_access_token succeeds: no exception, status 200, and save_tokens
\* finds every key
RefreshOk(o) == o.status = 200 /\ o.complete

\* expires_in = token_data.get('expires_in', 1800)
ExpiresIn(o) == IF o.expires_in = None THEN default_expires_in ELSE o.expires_in

\* save_tokens: the file and the object hold the new tokens and expiry
save_tokens(a, o) ==
    LET expiry_time == a.now + ExpiresIn(o)
    IN  [a EXCEPT !.token_file = [access_token |-> "a1", refresh_token |-> "r1",
                                  token_expiry |-> expiry_time],
                  !.access_token = "a1",
                  !.refresh_token = "r1",
                  !.token_expiry = expiry_time]

\* __init__ and load_tokens
LoadTokens ==
    /\ auth.pc = "init"
    /\ UNCHANGED <<version, data, pc, dte_0_exp, strikes_data, calls, puts, levels,
                   nq_levels, ratio, nq_price, other>>
    /\ auth' = IF FileExists(auth.token_file)
               THEN [auth EXCEPT !.pc = "loaded",
                                 !.access_token = auth.token_file.access_token,
                                 !.refresh_token = auth.token_file.refresh_token,
                                 !.token_expiry = auth.token_file.token_expiry]
               ELSE [auth EXCEPT !.pc = "loaded"]

\* get_valid_access_token, with the refresh request answered by outcome o
GetValidAccessToken ==
    /\ auth.pc = "loaded"
    /\ auth.calls < MaxCalls
    /\ UNCHANGED <<version, data, pc, dte_0_exp, strikes_data, calls, puts, levels,
                   nq_levels, ratio, nq_price, other>>
    /\ \E o \in RefreshOutcomes :
          LET a == [auth EXCEPT !.calls = @ + 1]
          IN  IF is_access_token_valid(auth, auth.now)
              THEN auth' = [a EXCEPT !.result = auth.access_token,
                                        !.response = NoResponse]
              ELSE IF auth.refresh_token # NoToken
                   THEN IF RefreshOk(o)
                        THEN auth' = [save_tokens(a, o) EXCEPT
                                         !.result = "a1",
                                         !.requests = @ + 1,
                                         !.response = o]
                        ELSE auth' = [a EXCEPT !.result = NoToken,
                                               !.requests = @ + 1,
                                               !.response = o]
                   ELSE auth' = [a EXCEPT !.result = NoToken, !.response = NoResponse]

\* the clock advances between two calls
Tick ==
    /\ auth.pc \in {"init", "loaded"}
    /\ auth.ticks < MaxTicks
    /\ UNCHANGED <<version, data, pc, dte_0_exp, strikes_data, calls, puts, levels,
                   nq_levels, ratio, nq_price, other>>
    /\ auth' = [auth EXCEPT !.now = @ + 1, !.ticks = @ + 1]

NextAuth == LoadTokens \/ GetValidAccessToken \/ Tick

----------------------------------------------------------------------------
(* The interpolation in floating point.  Python computes                   *)
(* strike1 + (strike2 - strike1) * (-gex1) / (gex2 - gex1) on floats: every *)
(* operation rounds its exact result to the nearest number with a mantissa *)
(* of fixed length, a tie going to the even mantissa.  The rest of the     *)
(* model computes in exact fractions; here each operation rounds, with a   *)
(* mantissa of MantissaBits bits in place of the 53 bits of a double.      *)

RECURSIVE Pow2(_)
Pow2(n) == IF n = 0 THEN 1 ELSE 2 * Pow2(n - 1)

RatNeg(a) == [num |-> -a.num, den |-> a.den]

RatAdd(a, b) == Rat(a.num * b.den + b.num * a.den, a.den * b.den)

\* x < y on fractions
RatLT(a, b) == a.num * b.den < b.num * a.den

\* the float nearest to the fraction x
RECURSIVE Fl(_)
Fl(x) ==
    IF x.num = 0 THEN x
    ELSE IF x.num < 0 THEN RatNeg(Fl(RatNeg(x)))
    ELSE IF RatLE(R(Pow2(MantissaBits)), x)
         THEN RatMul(R(2), Fl(RatDiv(x, R(2))))
    ELSE IF RatLT(x, R(Pow2(MantissaBits - 1)))
         THEN RatDiv(Fl(RatMul(R(2), x)), R(2))
    ELSE R(PyRound(x))

\* Mutant of InterpolateFloat: gex1 is not negated.
InterpolateFloatWrongSign(s1, g1, s2, g2) ==
    IF g2 = g1 THEN R(s1)
    ELSE Fl(RatAdd(R(s1),
                   Fl(RatDiv(Fl(RatMul(Fl(R(s2 - s1)), R(g1))), Fl(R(g2 - g1))))))

\* strike1 if gex2 == gex1 else strike1 + (strike2-strike1) * (-gex1) / (gex2-gex1),
\* every operation rounded
InterpolateFloat(s1, g1, s2, g2) ==
    IF g2 = g1 THEN R(s1)
    ELSE Fl(RatAdd(R(s1),
                   Fl(RatDiv(Fl(RatMul(Fl(R(s2 - s1)), R(-g1))), Fl(R(g2 - g1))))))

\* the loop of interpolate_zero_gamma (v2.2); v2.3 returns crossings[0], the
\* value of the same first bracket
RECURSIVE ScanBracketsFloat(_, _, _)
ScanBracketsFloat(nets, i, p) ==
    IF i > Len(nets) - 1 THEN R(p)
    ELSE IF Bracket(nets[i].net_gex, nets[i + 1].net_gex)
         THEN InterpolateFloat(nets[i].strike, nets[i].net_gex,
                               nets[i + 1].strike, nets[i + 1].net_gex)
         ELSE ScanBracketsFloat(nets, i + 1, p)

\* interpolate_zero_gamma / interpolate_zero_gamma_debug applied to the
\* aggregate, in floating point
ZeroGammaFloat ==
    /\ pc = "zero"
    /\ version \in {"v2.2", "v2.3"}
    /\ pc' = "done"
    /\ UNCHANGED <<version, data, dte_0_exp, strikes_data, calls, puts, nq_levels,
                   ratio, nq_price, other, auth>>
    /\ levels' = [levels EXCEPT
          !.zero_gamma = ScanBracketsFloat(NetByStrike(strikes_data), 1, underlying_price),
          !.qqq_price = underlying_price,
          !.expiration_used = IF version = "v2.3" THEN dte_0_exp ELSE @]

NextFloat == ZeroGammaFloat

----------------------------------------------------------------------------
(* Initial states: a snapshot has been loaded and a script is started.     *)

InitWith(V, P, NQ, K, ss, n, kinds, O) ==
    \E v \in V, p \in P, nq \in NQ, keys \in K, order \in O :
        \E f \in Chains(keys, ss, n, kinds) :
            /\ version = v
            /\ data = Snapshot(p, nq, keys, f, order)
            /\ pc = "calls"
            /\ dte_0_exp = None
            /\ strikes_data = <<>>
            /\ calls = <<>>
            /\ puts = <<>>
            /\ levels = NoLevels
            /\ nq_levels = NoNqLevels
            /\ ratio = NoneRat
            /\ nq_price = NoneRat
            /\ other = NoOther
            /\ auth = NoAuth

\* Key lists of the expiration maps: no expiration, one, or two in either order.
KeySeqs ==
    {<<>>} \cup {<<a>> : a \in DTEs}
           \cup {k \in {<<a, b>> : a \in DTEs, b \in DTEs} : k[1] # k[2]}

\* One expiration, up to MaxContracts contracts over all strikes.
Init == InitWith(Versions, Prices, {None}, {<<0>>}, Strikes, MaxContracts, Kinds, {"asc"})

Spec == Init /\ [][Next]_vars

\* Up to two expirations in any order, two strikes.
InitMulti == InitWith(Versions, {10}, {None}, KeySeqs, {9, 10}, MaxContractsMulti, Kinds, {"asc"})

SpecMulti == InitMulti /\ [][Next]_vars

\* nq_price of the snapshot: absent, zero, negative, or a live price
NQPrices == {None, 0, -400, 5, 25, 75, 400}

\* One expiration, few contracts, every kind of nq_price.
InitConvert ==
    InitWith(Versions, Prices, NQPrices, {<<0>>}, Strikes, MaxContractsConvert,
             Kinds, {"asc"})

SpecConvert == InitConvert /\ [][Next]_vars

\* Contracts of the two-strike scenario and variations of them; gamma is in
\* hundredths here (5 is 0.05), which scales every exposure by 100 and
\* leaves every level as it is.
ScenarioKinds ==
    [openInterest : {50, 500, 800}, gamma : {0, 5, 6}]

\* a call slot at 600 and a put slot at 600 or 605, each empty or holding
\* any of these contracts
InitScenario ==
    \E v \in Versions, k \in ScenarioStrikes :
      \E S \in SUBSET {<<"call", 0, 600>>, <<"put", 0, k>>} :
        \E f \in [S -> ScenarioKinds] :
            /\ version = v
            /\ data = Snapshot(602, None, <<0>>, f, "asc")
            /\ pc = "calls"
            /\ dte_0_exp = None
            /\ strikes_data = <<>>
            /\ calls = <<>>
            /\ puts = <<>>
            /\ levels = NoLevels
            /\ nq_levels = NoNqLevels
            /\ ratio = NoneRat
            /\ nq_price = NoneRat
            /\ other = NoOther
            /\ auth = NoAuth

SpecScenario == InitScenario /\ [][Next]_vars

\* contracts whose record lacks gamma, openInterest or both, and a full one
MissingKinds ==
    { [openInterest |-> 100],
      [gamma |-> 1],
      [openInterest |-> 200, gamma |-> 2],
      [bid |-> 1] }

\* One expiration whose contracts may lack fields.
InitMissing ==
    InitWith(Versions, Prices, {None}, {<<0>>}, Strikes, MaxContractsMissing,
             MissingKinds, {"asc"})

SpecMissing == InitMissing /\ [][Next]_vars

\* the top-level keys of a well-formed snapshot file
SnapshotFields == {"underlyingPrice", "callExpDateMap", "putExpDateMap"}

\* the dict d with only the keys F
Restrict(d, F) == [k \in F |-> d[k]]

\* What load_options_data can hand to main: nothing (file not found), or a
\* dict with any subset of the top-level keys (none: the empty dict), the
\* expiration maps holding no expiration, a 0DTE one or a later one.
InitMalformed ==
    \E v \in Versions \ {"v2.0"}, p \in Prices, F \in SUBSET SnapshotFields,
       keys \in {<<>>, <<0>>, <<1>>} :
        \E f \in Chains(keys, Strikes, MaxContractsMalformed, Kinds) :
            /\ version = v
            /\ \/ data = NotLoaded
               \/ data = Restrict(Snapshot(p, None, keys, f, "asc"), F)
            /\ pc = "calls"
            /\ dte_0_exp = None
            /\ strikes_data = <<>>
            /\ calls = <<>>
            /\ puts = <<>>
            /\ levels = NoLevels
            /\ nq_levels = NoNqLevels
            /\ ratio = NoneRat
            /\ nq_price = NoneRat
            /\ other = NoOther
            /\ auth = NoAuth

SpecMalformed == InitMalformed /\ [][Next]_vars

ConcurrentKinds ==
    { [openInterest |-> 100, gamma |-> 1], [openInterest |-> 200, gamma |-> 2] }

\* Two invocations of v2.3, each on a snapshot of its own (equal or not).
InitConcurrent ==
    \E p \in Prices, q \in Prices :
        \E f \in Chains(<<0>>, {9, 10}, MaxContractsConcurrent, ConcurrentKinds),
           g \in Chains(<<0>>, {9, 10}, MaxContractsConcurrent, ConcurrentKinds) :
            /\ version = "v2.3"
            /\ data = Snapshot(p, None, <<0>>, f, "asc")
            /\ pc = "calls"
            /\ dte_0_exp = None
            /\ strikes_data = <<>>
            /\ calls = <<>>
            /\ puts = <<>>
            /\ levels = NoLevels
            /\ nq_levels = NoNqLevels
            /\ ratio = NoneRat
            /\ nq_price = NoneRat
            /\ other = [pc |-> "calls", data |-> Snapshot(q, None, <<0>>, g, "asc"),
                        dte_0_exp |-> None, strikes_data |-> <<>>, levels |-> NoLevels]
            /\ auth = NoAuth

SpecConcurrent == InitConcurrent /\ [][NextConcurrent]_vars

\* what tokens.json can hold: nothing, or tokens with an expiry that is
\* missing, past, inside the buffer or ahead
TokenFiles ==
    {NoFile} \cup [access_token : {NoToken, "a0"}, refresh_token : {NoToken, "r0"},
                   token_expiry : {None, 5, 11, 13, 14, 40}]

\* A script creates a SchwabAuth at minute 10; no level computation runs.
InitAuth ==
    /\ version = "v2.3"
    /\ data = NotLoaded
    /\ pc = "idle"
    /\ dte_0_exp = None
    /\ strikes_data = <<>>
    /\ calls = <<>>
    /\ puts = <<>>
    /\ levels = NoLevels
    /\ nq_levels = NoNqLevels
    /\ ratio = NoneRat
    /\ nq_price = NoneRat
    /\ other = NoOther
    /\ \E f \in TokenFiles :
          auth = [pc |-> "init", access_token |-> NoToken, refresh_token |-> NoToken,
                  token_expiry |-> None, token_file |-> f, now |-> 10, ticks |-> 0,
                  calls |-> 0, result |-> NoToken, requests |-> 0,
                  response |-> NoResponse]

SpecAuth == InitAuth /\ [][NextAuth]_vars

\* key lists of an expiration map that need not be those of the other map
SideKeySeqs == {<<>>, <<0>>, <<1>>, <<1, 0>>, <<2, 1>>}

\* A snapshot for v2.3 whose call map and put map list expirations of their
\* own; the call map may be missing from the file.
InitPutKeys ==
    \E p \in Prices, ck \in SideKeySeqs, pk \in SideKeySeqs,
       F \in {SnapshotFields, SnapshotFields \ {"callExpDateMap"}} :
        \E f \in Chains(ck \o pk, {9, 10}, MaxContractsPutKeys, Kinds) :
            /\ version = "v2.3"
            /\ data = Restrict([underlyingPrice |-> p,
                                callExpDateMap  |-> ExpDateMap(ck, f, "call", "asc"),
                                putExpDateMap   |-> ExpDateMap(pk, f, "put", "asc")], F)
            /\ pc = "calls"
            /\ dte_0_exp = None
            /\ strikes_data = <<>>
            /\ calls = <<>>
            /\ puts = <<>>
            /\ levels = NoLevels
            /\ nq_levels = NoNqLevels
            /\ ratio = NoneRat
            /\ nq_price = NoneRat
            /\ other = NoOther
            /\ auth = NoAuth

SpecPutKeys == InitPutKeys /\ [][Next]_vars

\* strikes and net exposures that are floats of the short mantissa
FloatStrikes == 1..10
FloatNets == (-15)..15

\* an aggregate entry whose net exposure is g
NetEntry(s, g) ==
    [strike |-> s,
     call_oi   |-> IF g >= 0 THEN MINIMUM_OI ELSE 0,
     put_oi    |-> IF g < 0 THEN MINIMUM_OI ELSE 0,
     call_gamma |-> 0, put_gamma |-> 0,
     call_gex  |-> IF g >= 0 THEN g ELSE 0,
     put_gex   |-> IF g < 0 THEN g ELSE 0]

\* The interpolator is about to run on an aggregate of two strikes.
InitFloat ==
    \E v \in {"v2.2", "v2.3"}, s1 \in FloatStrikes, s2 \in FloatStrikes,
       g1 \in FloatNets, g2 \in FloatNets :
        /\ s1 < s2
        /\ version = v
        /\ data = [underlyingPrice |-> 5]
        /\ pc = "zero"
        /\ dte_0_exp = 0
        /\ strikes_data = <<NetEntry(s1, g1), NetEntry(s2, g2)>>
        /\ calls = <<>>
        /\ puts = <<>>
        /\ levels = NoLevels
        /\ nq_levels = NoNqLevels
        /\ ratio = NoneRat
        /\ nq_price = NoneRat
        /\ other = NoOther
        /\ auth = NoAuth

SpecFloat == InitFloat /\ [][NextFloat]_vars

----------------------------------------------------------------------------
(* Vocabulary of the properties, stated on the snapshot and on the result. *)

Returned == pc \in {"done", "converted"}
Aggregated == pc \in {"levels", "zero", "done", "converted"}

\* the contracts the snapshot lists for one side of one expiration
Listed(side, e) ==
    Range(StrikesOf(IF side = "call" THEN data.callExpDateMap
                                     ELSE data.putExpDateMap, e))

\* the strikes of the aggregate, and the aggregate of a strike
AggStrikes == {strikes_data[i].strike : i \in DOMAIN strikes_data}
Agg(s) == strikes_data[CHOOSE i \in DOMAIN strikes_data : strikes_data[i].strike = s]
Net(s) == Agg(s).call_gex + Agg(s).put_gex

\* s1 < s2 are neighbours in ascending strike order
Adjacent(s1, s2) ==
    /\ s1 \in AggStrikes /\ s2 \in AggStrikes /\ s1 < s2
    /\ ~ \E s \in AggStrikes : s1 < s /\ s < s2

\* g1 <= 0 <= g2 or g2 <= 0 <= g1 on a pair of neighbours
Qualifies(s1, s2) ==
    /\ Adjacent(s1, s2)
    /\ \/ (Net(s1) <= 0 /\ 0 <= Net(s2))
       \/ (Net(s2) <= 0 /\ 0 <= Net(s1))

FirstPair(s1, s2) ==
    /\ Qualifies(s1, s2)
    /\ \A t1, t2 \in AggStrikes : Qualifies(t1, t2) => s1 <= t1

\* the fraction z equals s1 + (s2 - s1) * (-g1) / (g2 - g1), for g1 # g2
IsInterpolation(z, s1, g1, s2, g2) ==
    /\ z.den > 0
    /\ z.num * (g2 - g1) = z.den * (s1 * (g2 - g1) + (s2 - s1) * (-g1))

Interpolating == version \in {"v2.2", "v2.3"}

----------------------------------------------------------------------------
\* C1: the zero-crossing interpolator (v2.2, v2.3) works on net = call
\* exposure + put exposure per aggregated strike in ascending strike order
\* and returns the value of the FIRST neighbouring pair with g1 <= 0 <= g2 or
\* g2 <= 0 <= g1: s1 when g1 = g2, else s1 + (s2-s1)*(-g1)/(g2-g1); later
\* brackets do not matter; without such a pair it returns underlyingPrice.
C1_FirstBracketInterpolated ==
    (Returned /\ Interpolating) =>
        /\ (~ \E s1, s2 \in AggStrikes : Qualifies(s1, s2))
               => levels.zero_gamma = R(underlying_price)
        /\ \A s1, s2 \in AggStrikes :
              FirstPair(s1, s2) =>
                  IF Net(s1) = Net(s2)
                  THEN levels.zero_gamma = R(s1)
                  ELSE IsInterpolation(levels.zero_gamma, s1, Net(s1), s2, Net(s2))

\* C1 witness: two brackets with different crossings, the first one with
\* g1 # g2, and the interpolator has returned.
C1_Witness ==
    /\ Returned /\ version = "v2.3"
    /\ \E s1, s2, t1, t2 \in AggStrikes :
          /\ FirstPair(s1, s2) /\ Qualifies(t1, t2) /\ s1 < t1
          /\ Net(s1) # Net(s2) /\ Net(t1) # Net(t2)
          /\ ~ IsInterpolation(levels.zero_gamma, t1, Net(t1), t2, Net(t2))

C4_Witness ==
    /\ Returned /\ version = "v2.2"
    /\ levels.zero_gamma.den > 1
    /\ \E s1, s2 \in AggStrikes : Qualifies(s1, s2)
    /\ ~ RatLE(levels.zero_gamma, R(underlying_price))

----------------------------------------------------------------------------
(* The snapshot seen per strike *)

ExpirationsListed ==
    Range(ExpKeys(data.callExpDateMap)) \cup Range(ExpKeys(data.putExpDateMap))

\* the expirations whose contracts the running script reads
ProcessedExps ==
    IF version \in {"v2.0", "v2.3"} THEN {dte_0_exp} \ {None} ELSE ExpirationsListed

HasContract(side, e, s) == \E c \in Listed(side, e) : c.strike = s

ContractOf(side, e, s) == CHOOSE c \in Listed(side, e) : c.strike = s

\* open interest / gamma the snapshot gives for a side of a strike (0 if none)
OIOf(side, e, s) ==
    IF HasContract(side, e, s) THEN Get(ContractOf(side, e, s), "openInterest") ELSE 0
GammaOf(side, e, s) ==
    IF HasContract(side, e, s) THEN Get(ContractOf(side, e, s), "gamma") ELSE 0

\* the side of the strike is at or above the threshold in a processed expiration
Live(side, s) == \E e \in ProcessedExps : OIOf(side, e, s) >= MINIMUM_OI

StrikesListed ==
    {s \in Strikes : \E e \in ProcessedExps :
                        HasContract("call", e, s) \/ HasContract("put", e, s)}

\* strikes that pass the activity filter, and strikes that do not
Surviving == {s \in StrikesListed : Live("call", s) \/ Live("put", s)}
Illiquid == StrikesListed \ Surviving

(* The filtered strike aggregates whatever the script: v2.0 keeps them in  *)
(* the lists calls and puts, the other scripts in strikes_data.            *)
RecStrikes(recs) == {recs[i].strike : i \in DOMAIN recs}
RecOf(recs, s) == recs[CHOOSE i \in DOMAIN recs : recs[i].strike = s]

FilteredStrikes ==
    IF version = "v2.0" THEN RecStrikes(calls) \cup RecStrikes(puts) ELSE AggStrikes

CallOI(s) ==
    IF version = "v2.0"
    THEN IF s \in RecStrikes(calls) THEN RecOf(calls, s).oi ELSE 0
    ELSE Agg(s).call_oi
PutOI(s) ==
    IF version = "v2.0"
    THEN IF s \in RecStrikes(puts) THEN RecOf(puts, s).oi ELSE 0
    ELSE Agg(s).put_oi
CallExposure(s) ==
    IF version = "v2.0"
    THEN IF s \in RecStrikes(calls) THEN RecOf(calls, s).gex ELSE 0
    ELSE Agg(s).call_gex
PutExposure(s) ==
    IF version = "v2.0"
    THEN IF s \in RecStrikes(puts) THEN RecOf(puts, s).gex ELSE 0
    ELSE Agg(s).put_gex


----------------------------------------------------------------------------
\* C2: on every strike that passes the activity filter the level computation
\* (v2.3, v2.1) has callExposure = callGamma * callOI * 100 * price^2 * 0.01
\* and putExposure = -(putGamma * putOI * 100 * price^2 * 0.01).
C2_PriceSquaredExposure ==
    (Aggregated /\ version \in {"v2.1", "v2.3"}) =>
        \A s \in AggStrikes :
            /\ 100 * Agg(s).call_gex =
                  Agg(s).call_gamma * Agg(s).call_oi * 100
                      * underlying_price * underlying_price
            /\ 100 * Agg(s).put_gex =
                  -(Agg(s).put_gamma * Agg(s).put_oi * 100
                      * underlying_price * underlying_price)

\* C3: each extremum level is a strike attaining the extremum of its
\* candidate set (callOI > 0, putOI > 0, callExposure > 0, putExposure < 0
\* among the filtered strikes) and is underlyingPrice when that set is empty
\* (v2.3, v2.0).
C3_ExtremaOrDefault ==
    (Returned /\ version \in {"v2.0", "v2.3"}) =>
        LET cOI == {s \in FilteredStrikes : CallOI(s) > 0}
            pOI == {s \in FilteredStrikes : PutOI(s) > 0}
            cEx == {s \in FilteredStrikes : CallExposure(s) > 0}
            pEx == {s \in FilteredStrikes : PutExposure(s) < 0}
        IN  /\ IF cOI = {} THEN levels.call_oi = underlying_price
               ELSE /\ levels.call_oi \in cOI
                    /\ \A t \in cOI : CallOI(t) <= CallOI(levels.call_oi)
            /\ IF pOI = {} THEN levels.put_oi = underlying_price
               ELSE /\ levels.put_oi \in pOI
                    /\ \A t \in pOI : PutOI(t) <= PutOI(levels.put_oi)
            /\ IF cEx = {} THEN levels.pos_gex = underlying_price
               ELSE /\ levels.pos_gex \in cEx
                    /\ \A t \in cEx : CallExposure(t) <= CallExposure(levels.pos_gex)
            /\ IF pEx = {} THEN levels.neg_gex = underlying_price
               ELSE /\ levels.neg_gex \in pEx
                    /\ \A t \in pEx : PutExposure(levels.neg_gex) <= PutExposure(t)

\* the four extremum levels returned
ExtremumLevels == {levels.call_oi, levels.put_oi, levels.pos_gex, levels.neg_gex}

\* C5 as stated: a strike whose call and put open interest are both below
\* MINIMUM_OI is never returned as any of the five levels (v2.3).
C5_IlliquidStrikeNeverALevel ==
    (Returned /\ version = "v2.3") =>
        \A s \in Illiquid :
            /\ s \notin ExtremumLevels
            /\ levels.zero_gamma # R(s)

\* C5 amended: such a strike is never selected: each of callOI, putOI,
\* positiveExposure, negativeExposure is a surviving strike or the
\* underlyingPrice default, and zeroCrossing is underlyingPrice or a point
\* between two neighbouring surviving strikes; a level equals the price of a
\* filtered-out strike only when underlyingPrice equals it or the
\* interpolated crossing falls on it.
C5_LevelsFromSurvivingStrikes ==
    (Returned /\ version = "v2.3") =>
        /\ \A l \in ExtremumLevels : l \in Surviving \/ l = underlying_price
        /\ \/ levels.zero_gamma = R(underlying_price)
           \/ \E s1, s2 \in Surviving :
                 /\ s1 < s2
                 /\ ~ \E s \in Surviving : s1 < s /\ s < s2
                 /\ RatLE(R(s1), levels.zero_gamma)
                 /\ RatLE(levels.zero_gamma, R(s2))
        /\ \A s \in Illiquid :
              /\ s \in ExtremumLevels => s = underlying_price
              /\ levels.zero_gamma = R(s) =>
                    \/ s = underlying_price
                    \/ \E s1, s2 \in Surviving : s1 < s /\ s < s2

\* C5 witness: a filtered-out strike different from the price is listed, a
\* surviving strike is the callOI level, and the crossing is interpolated
\* onto the filtered-out strike.
C5_Witness ==
    /\ Returned /\ version = "v2.3"
    /\ levels.call_oi \in Surviving
    /\ \E s \in Illiquid :
          /\ s # underlying_price
          /\ OIOf("call", dte_0_exp, s) > 0
          /\ levels.zero_gamma = R(s)

\* C6: the activity filter (v2.3, v2.1) drops exactly the strikes whose call
\* and put open interest are both below MINIMUM_OI; a strike with one side at
\* or above the threshold is kept, and the side below it has OI, gamma and
\* exposure all zero.
C6_FilterDropsExactlyIlliquid ==
    (Aggregated /\ version \in {"v2.1", "v2.3"}) =>
        /\ AggStrikes = Surviving
        /\ \A s \in AggStrikes :
              /\ ~ Live("call", s) =>
                    Agg(s).call_oi = 0 /\ Agg(s).call_gamma = 0 /\ Agg(s).call_gex = 0
              /\ ~ Live("put", s) =>
                    Agg(s).put_oi = 0 /\ Agg(s).put_gamma = 0 /\ Agg(s).put_gex = 0
              /\ Live("call", s) => Agg(s).call_oi >= MINIMUM_OI
              /\ Live("put", s) => Agg(s).put_oi >= MINIMUM_OI

\* C6 witness: one strike is dropped, another is kept at exactly MINIMUM_OI
\* on the put side while its listed call contract is below the threshold.
C6_Witness ==
    /\ Aggregated /\ version = "v2.3"
    /\ Illiquid # {}
    /\ \E s \in AggStrikes :
          /\ HasContract("call", dte_0_exp, s)
          /\ OIOf("call", dte_0_exp, s) > 0
          /\ ~ Live("call", s)
          /\ Agg(s).put_oi = MINIMUM_OI
          /\ Agg(s).call_oi = 0

\* C7: when no strike passes the activity filter (also when the expiration
\* lists no contract) the level computation (v2.3, v1) does not fail and
\* returns all five levels equal to underlyingPrice with netExposure 0.
C7_NoSurvivorGivesDefaults ==
    (version \in {"v1", "v2.3"} /\ ExpirationsListed # {}
        /\ \A e \in ExpirationsListed, side \in Sides :
              \A c \in Listed(side, e) :
                  version = "v2.3" /\ Get(c, "openInterest") < MINIMUM_OI) =>
        /\ pc \notin {"crashed", "failed"}
        /\ Returned =>
              /\ ExtremumLevels = {underlying_price}
              /\ levels.zero_gamma = R(underlying_price)
              /\ version = "v2.3" => levels.net_gex = R(0)

----------------------------------------------------------------------------
(* Aggregates against single expirations and against all of them *)

CallGamma(s) ==
    IF version = "v2.0"
    THEN IF s \in RecStrikes(calls) THEN RecOf(calls, s).gamma ELSE 0
    ELSE Agg(s).call_gamma
PutGamma(s) ==
    IF version = "v2.0"
    THEN IF s \in RecStrikes(puts) THEN RecOf(puts, s).gamma ELSE 0
    ELSE Agg(s).put_gamma

\* what the per-contract filter lets through of one side of strike s in e
SideOI(side, e, s) ==
    IF OIOf(side, e, s) >= MINIMUM_OI THEN OIOf(side, e, s) ELSE 0
SideGamma(side, e, s) ==
    IF OIOf(side, e, s) >= MINIMUM_OI THEN GammaOf(side, e, s) ELSE 0

\* the filtered aggregates are those of expiration e and of nothing else
FromExpiration(e) ==
    /\ FilteredStrikes =
          {s \in Strikes : SideOI("call", e, s) > 0 \/ SideOI("put", e, s) > 0}
    /\ \A s \in FilteredStrikes :
          /\ CallOI(s) = SideOI("call", e, s)
          /\ PutOI(s) = SideOI("put", e, s)
          /\ CallGamma(s) = SideGamma("call", e, s)
          /\ PutGamma(s) = SideGamma("put", e, s)

\* the smallest days-to-expiration among the expirations of the snapshot
Nearest == CHOOSE e \in ExpirationsListed : \A x \in ExpirationsListed : e <= x

RECURSIVE TotalOI(_, _, _)
TotalOI(E, side, s) ==
    IF E = {} THEN 0
    ELSE LET e == CHOOSE x \in E : TRUE
         IN  OIOf(side, e, s) + TotalOI(E \ {e}, side, s)

RECURSIVE TotalGamma(_, _, _)
TotalGamma(E, side, s) ==
    IF E = {} THEN 0
    ELSE LET e == CHOOSE x \in E : TRUE
         IN  GammaOf(side, e, s) + TotalGamma(E \ {e}, side, s)

\* C8: zero-DTE scope (v2.3): when the snapshot has an expiration with 0
\* days to expiration only its contracts are aggregated; when it has none the
\* computation is not aborted and aggregates the expiration with the smallest
\* days to expiration.
C8_ZeroDTEElseNearest ==
    (version = "v2.3" /\ pc # "calls" /\ ExpirationsListed # {}) =>
        /\ pc # "failed"
        /\ dte_0_exp = (IF 0 \in ExpirationsListed THEN 0 ELSE Nearest)
        /\ Aggregated => FromExpiration(dte_0_exp)

\* C8 witness: no 0DTE expiration, the nearest one comes second in the file,
\* the farther one holds an active contract on a strike the nearest one does
\* not list, and the level set has been returned from the nearest one.
C8_Witness ==
    /\ version = "v2.3" /\ Returned
    /\ 0 \notin ExpirationsListed
    /\ Len(data.callExpDateMap) = 2
    /\ data.callExpDateMap[2].exp = dte_0_exp
    /\ AggStrikes # {}
    /\ \E s \in Strikes \ AggStrikes :
          OIOf("call", data.callExpDateMap[1].exp, s) >= MINIMUM_OI

\* C9: all-expirations scope (v2.2): each aggregate's callOI, putOI,
\* callGamma, putGamma are the sums over all expirations listing the strike,
\* and the activity filter decides on the summed open interest.
C9_SummedBeforeFilter ==
    (version = "v2.2" /\ Aggregated) =>
        LET E == ExpirationsListed
        IN  /\ AggStrikes =
                  {s \in Strikes : \/ TotalOI(E, "call", s) >= MINIMUM_OI
                                   \/ TotalOI(E, "put", s) >= MINIMUM_OI}
            /\ \A s \in AggStrikes :
                  /\ Agg(s).call_oi = TotalOI(E, "call", s)
                  /\ Agg(s).put_oi = TotalOI(E, "put", s)
                  /\ Agg(s).call_gamma = TotalGamma(E, "call", s)
                  /\ Agg(s).put_gamma = TotalGamma(E, "put", s)

\* C10: nearest-expiration scope (v2.3, v2.1, v2.0): the aggregates hold
\* exactly the values of the expiration with the smallest days to expiration,
\* whatever the order of the expirations in the snapshot.
C10_OnlyNearestExpiration ==
    (version \in {"v2.0", "v2.1", "v2.3"} /\ Aggregated /\ ExpirationsListed # {}) =>
        FromExpiration(Nearest)

----------------------------------------------------------------------------
(* Conversion to the correlated instrument *)

Converted == pc = "converted"

\* the five levels with their converted values, as pairs <<level, mapped>>;
\* a level v2.0 leaves out is not converted
MappedPairs ==
    {<<R(levels[n]), nq_levels[n]>> :
        n \in {m \in {"call_oi", "pos_gex", "neg_gex", "put_oi"} : levels[m] # None}}
    \cup {<<levels.zero_gamma, nq_levels.zero_gamma>>}

\* twice the distance between the mapped value m and level * ratio
TwiceOff(l, m) == RatMul(R(2), RatAbs(RatSub(R(m), RatMul(l, ratio))))

\* C11: the conversion ratio (v2.3, v2.1) is nq_price / underlyingPrice when
\* the snapshot supplies a correlated price > 0; when it is absent, zero or
\* negative the ratio is the fallback constant of the script (41.35 in v2.3,
\* 41.36 in v2.1) and the correlated price is underlyingPrice * fallback.
C11_RatioLiveOrFallback ==
    (Converted /\ version \in {"v2.1", "v2.3"}) =>
        LET nq == data.nq_price
            p  == data.underlyingPrice
        IN  IF nq # None /\ nq > 0
            THEN /\ ratio.den > 0
                 /\ ratio.num * p = nq * ratio.den
                 /\ nq_price = R(nq)
            ELSE /\ ratio = (IF version = "v2.3" THEN [num |-> 827, den |-> 20]
                                                 ELSE [num |-> 1034, den |-> 25])
                 /\ nq_price.den > 0
                 /\ nq_price.num * ratio.den = p * ratio.num * nq_price.den

\* C11 witness: a negative correlated price is supplied and the fallback
\* constant has been used.
C11_Witness ==
    /\ Converted /\ version = "v2.3"
    /\ data.nq_price < 0 /\ data.nq_price # None
    /\ ratio = [num |-> 827, den |-> 20]

\* C12: each mapped level is round(level * ratio / ROUND_TO) * ROUND_TO: a
\* multiple of ROUND_TO, no other multiple of ROUND_TO is strictly closer to
\* level * ratio, and on a tie Python's round takes the even quotient.
C12_MappedToNearestTick ==
    Converted =>
        \A lm \in MappedPairs :
            /\ lm[2] % ROUND_TO = 0
            /\ RatLE(TwiceOff(lm[1], lm[2]), R(ROUND_TO))
            /\ TwiceOff(lm[1], lm[2]) = R(ROUND_TO) => (lm[2] \div ROUND_TO) % 2 = 0

\* C12 witness: level * ratio lies exactly between two multiples of ROUND_TO.
C12_Witness ==
    /\ Converted /\ version = "v2.3"
    /\ \E lm \in MappedPairs : TwiceOff(lm[1], lm[2]) = R(ROUND_TO)

----------------------------------------------------------------------------
(* Totals and signs *)

\* sum over the strikes S of call exposure plus put exposure
RECURSIVE ExposureSum(_)
ExposureSum(S) ==
    IF S = {} THEN 0
    ELSE LET s == CHOOSE x \in S : TRUE
         IN  CallExposure(s) + PutExposure(s) + ExposureSum(S \ {s})

\* C14: the returned netExposure (v2.3, v2.0) equals the sum of callExposure
\* plus the sum of putExposure over all filtered strikes.
C14_NetIsSumOfExposures ==
    (Returned /\ version \in {"v2.0", "v2.3"}) =>
        levels.net_gex = R(ExposureSum(FilteredStrikes))

\* C15: sign convention: in every strike aggregate callExposure >= 0 when
\* callOI > 0 and callGamma >= 0, and putExposure <= 0 when putOI > 0 and
\* putGamma >= 0.
C15_SignConvention ==
    Aggregated =>
        \A s \in FilteredStrikes :
            /\ (CallOI(s) > 0 /\ CallGamma(s) >= 0) => CallExposure(s) >= 0
            /\ (PutOI(s) > 0 /\ PutGamma(s) >= 0) => PutExposure(s) <= 0

\* C15 witness: a strike with both sides active and gamma > 0: call exposure
\* strictly positive, put exposure strictly negative.
C15_Witness ==
    /\ Aggregated /\ version = "v2.3"
    /\ \E s \in AggStrikes :
          /\ Agg(s).call_oi > 0 /\ Agg(s).call_gamma > 0 /\ Agg(s).call_gex > 0
          /\ Agg(s).put_oi > 0 /\ Agg(s).put_gamma > 0 /\ Agg(s).put_gex < 0

----------------------------------------------------------------------------
(* The two-strike scenario *)

\* underlyingPrice 602; strike 600 with callOI 500, callGamma 0.05 and no
\* put; strike 605 with putOI 800, putGamma 0.06 and no call
IsScenario ==
    /\ data.underlyingPrice = 602
    /\ StrikesOf(data.callExpDateMap, 0) =
          <<[strike |-> 600, openInterest |-> 500, gamma |-> 5]>>
    /\ StrikesOf(data.putExpDateMap, 0) =
          <<[strike |-> 605, openInterest |-> 800, gamma |-> 6]>>

ScenarioExtrema ==
    /\ levels.call_oi = 600 /\ levels.put_oi = 605
    /\ levels.pos_gex = 600 /\ levels.neg_gex = 605

\* C16 as stated: in the scenario the four extremum levels are 600, 605,
\* 600, 605 and zeroCrossing is underlyingPrice, 602 (v2.3, v2.1).
C16_ScenarioCrossingAtPrice ==
    (Returned /\ IsScenario /\ version \in {"v2.1", "v2.3"}) =>
        ScenarioExtrema /\ levels.zero_gamma = R(602)

\* C16 amended: in the scenario the four extremum levels are 600, 605, 600,
\* 605; the net exposure is positive at 600 and negative at 605, so the
\* interpolating search (v2.3) returns 600 + 5 * 25/73 = 43925/73 (about
\* 601.71) and the nearest-to-zero search in the 5% band (v2.1) returns 600.
C16_ScenarioCrossingInterpolated ==
    (Returned /\ IsScenario /\ version \in {"v2.1", "v2.3"}) =>
        /\ ScenarioExtrema
        /\ levels.zero_gamma =
              (IF version = "v2.3" THEN [num |-> 43925, den |-> 73] ELSE R(600))

\* C16 witness: v2.3 has returned on the scenario.
C16_Witness ==
    /\ Returned /\ IsScenario /\ version = "v2.3"
    /\ Net(600) > 0 /\ Net(605) < 0

----------------------------------------------------------------------------
(* The single-strike scenario *)

\* every contract of the snapshot is at strike s and has gamma 0
SingleStrikeZeroGamma(s) ==
    /\ \E side \in Sides : Listed(side, 0) # {}
    /\ \A side \in Sides : \A c \in Listed(side, 0) :
          c.strike = s /\ Get(c, "gamma") = 0

ExposuresZero == \A s \in AggStrikes : Agg(s).call_gex = 0 /\ Agg(s).put_gex = 0

\* C17 as stated: with a single strike whose callGamma and putGamma are 0,
\* at any open interest, both exposures are zero and all five levels equal
\* underlyingPrice (v2.3).
C17_ZeroGammaAllDefaults ==
    (Returned /\ version = "v2.3" /\ \E s \in ScenarioStrikes : SingleStrikeZeroGamma(s)) =>
        /\ ExposuresZero
        /\ ExtremumLevels = {data.underlyingPrice}
        /\ levels.zero_gamma = R(data.underlyingPrice)

\* C17 amended: with a single strike whose callGamma and putGamma are 0,
\* both exposures are zero and positiveExposure, negativeExposure and
\* zeroCrossing equal underlyingPrice; callOI (putOI) is the strike itself
\* when its call (put) open interest is at least MINIMUM_OI, and
\* underlyingPrice otherwise.
C17_ZeroGammaExposureDefaults ==
    \A s \in ScenarioStrikes :
        (Returned /\ version = "v2.3" /\ SingleStrikeZeroGamma(s)) =>
            /\ ExposuresZero
            /\ levels.pos_gex = data.underlyingPrice
            /\ levels.neg_gex = data.underlyingPrice
            /\ levels.zero_gamma = R(data.underlyingPrice)
            /\ levels.call_oi = (IF OIOf("call", 0, s) >= MINIMUM_OI
                                 THEN s ELSE data.underlyingPrice)
            /\ levels.put_oi = (IF OIOf("put", 0, s) >= MINIMUM_OI
                                THEN s ELSE data.underlyingPrice)

\* C17 witness: the single strike carries an active call and an active put,
\* both with gamma 0, and differs from the price.
C17_Witness ==
    /\ Returned /\ version = "v2.3"
    /\ \E s \in ScenarioStrikes :
          /\ SingleStrikeZeroGamma(s)
          /\ s # data.underlyingPrice
          /\ OIOf("call", 0, s) >= MINIMUM_OI
          /\ OIOf("put", 0, s) >= MINIMUM_OI

----------------------------------------------------------------------------
(* Ties *)

\* the lowest strike among those whose field attains the maximum over the
\* strikes with a positive field (sign = 1), or the minimum over the strikes
\* with a negative field (sign = -1)
LowestTied(field, sign) ==
    LET cand == {s \in AggStrikes : sign * Agg(s)[field] > 0}
        best == {s \in cand : \A t \in cand : sign * Agg(t)[field] <= sign * Agg(s)[field]}
    IN  CHOOSE s \in best : \A t \in best : s <= t

HasCandidate(field, sign) == \E s \in AggStrikes : sign * Agg(s)[field] > 0

\* the aggregate the script builds when the strikes of the expiration appear
\* in the opposite order in the file (one expiration)
ReorderedAggregate ==
    ProcessStrikes(
        ProcessStrikes(<<>>, Reverse(StrikesOf(data.callExpDateMap, 0)),
                       "call", version, underlying_price),
        Reverse(StrikesOf(data.putExpDateMap, 0)), "put", version, underlying_price)

\* C18: tie-break (v2.3, v2.1): each extremum level is the lowest strike
\* among those tied for the extremum, and the four levels are the same when
\* the same contracts appear in the opposite order in the snapshot.
C18_TieBreakLowestStrike ==
    (Returned /\ version \in {"v2.1", "v2.3"}) =>
        /\ HasCandidate("call_oi", 1) => levels.call_oi = LowestTied("call_oi", 1)
        /\ HasCandidate("put_oi", 1) => levels.put_oi = LowestTied("put_oi", 1)
        /\ HasCandidate("call_gex", 1) => levels.pos_gex = LowestTied("call_gex", 1)
        /\ HasCandidate("put_gex", -1) => levels.neg_gex = LowestTied("put_gex", -1)
        /\ levels.call_oi = MaxLevel(ReorderedAggregate, "call_oi", underlying_price)
        /\ levels.put_oi = MaxLevel(ReorderedAggregate, "put_oi", underlying_price)
        /\ levels.pos_gex = MaxLevel(ReorderedAggregate, "call_gex", underlying_price)
        /\ levels.neg_gex = MinLevel(ReorderedAggregate, "put_gex", underlying_price)


----------------------------------------------------------------------------
(* C19 *)

\* the net exposure of every strike that kept a contract after the filter
FilteredNets ==
    IF version = "v2.0"
    THEN LET ss == SetToSortedSeq({calls[i].strike : i \in DOMAIN calls}
                                  \cup {puts[i].strike : i \in DOMAIN puts})
             cg(s) == IF \E i \in DOMAIN calls : calls[i].strike = s
                      THEN calls[CHOOSE i \in DOMAIN calls : calls[i].strike = s].gex
                      ELSE 0
             pg(s) == IF \E i \in DOMAIN puts : puts[i].strike = s
                      THEN puts[CHOOSE i \in DOMAIN puts : puts[i].strike = s].gex
                      ELSE 0
         IN  [i \in DOMAIN ss |-> [strike |-> ss[i], net_gex |-> cg(ss[i]) + pg(ss[i])]]
    ELSE LET nets == NetByStrike(strikes_data)
         IN  [i \in DOMAIN nets |-> [strike |-> nets[i].strike, net_gex |-> nets[i].net_gex]]

\* the filtered strikes within 5% of the underlying price
BandNets ==
    LET Test(n) == 20 * Abs(n.strike - underlying_price) <= underlying_price
    IN  SelectSeq(FilteredNets, Test)

\* C19: in the scripts that search a band (v2.0, v2.1), the zero-gamma level
\* is a strike of the 5% band whose net exposure is closest to zero; when no
\* filtered strike lies in the band it is such a strike of the full filtered
\* domain, never the plain underlying price while filtered strikes exist.
C19_BandElseFullDomain ==
    (Returned /\ version \in {"v2.0", "v2.1"}) =>
        LET cand == IF BandNets = <<>> THEN FilteredNets ELSE BandNets
        IN  cand # <<>> =>
                \E i \in DOMAIN cand :
                    /\ levels.zero_gamma = R(cand[i].strike)
                    /\ \A j \in DOMAIN cand :
                           Abs(cand[i].net_gex) <= Abs(cand[j].net_gex)



----------------------------------------------------------------------------
(* C20 *)

\* the contract with every absent field written out as 0
Fill(c) ==
    [strike       |-> c.strike,
     openInterest |-> IF "openInterest" \in DOMAIN c THEN c.openInterest ELSE 0,
     gamma        |-> IF "gamma" \in DOMAIN c THEN c.gamma ELSE 0]

FillAll(cs) == [i \in DOMAIN cs |-> Fill(cs[i])]

Complete(c) == {"openInterest", "gamma"} \subseteq DOMAIN c

\* the aggregate of the snapshot whose absent fields are written out as 0
FilledAggregate ==
    ProcessStrikes(
        ProcessStrikes(<<>>, FillAll(StrikesOf(data.callExpDateMap, 0)),
                       "call", version, underlying_price),
        FillAll(StrikesOf(data.putExpDateMap, 0)), "put", version, underlying_price)

\* every complete contract above the filter is in the aggregate with its own
\* open interest, gamma and exposure
OthersProcessed ==
    /\ \A c \in Range(StrikesOf(data.callExpDateMap, 0)) :
          (Complete(c) /\ c.openInterest >= MINIMUM_OI) =>
              /\ Agg(c.strike).call_oi = c.openInterest
              /\ Agg(c.strike).call_gamma = c.gamma
              /\ Agg(c.strike).call_gex =
                     FullGex(c.gamma, c.openInterest, underlying_price)
    /\ \A c \in Range(StrikesOf(data.putExpDateMap, 0)) :
          (Complete(c) /\ c.openInterest >= MINIMUM_OI) =>
              /\ Agg(c.strike).put_oi = c.openInterest
              /\ Agg(c.strike).put_gamma = c.gamma
              /\ Agg(c.strike).put_gex =
                     -FullGex(c.gamma, c.openInterest, underlying_price)

\* C20: in v2.3 a contract without gamma or without openInterest is processed
\* as if the field were 0 (the aggregate equals that of the snapshot with the
\* absent fields written as 0), the run never aborts, and every other
\* contract is still aggregated.
C20_MissingFieldReadsAsZero ==
    version = "v2.3" =>
        /\ pc \notin {"crashed", "failed"}
        /\ Aggregated => (strikes_data = FilledAggregate /\ OthersProcessed)

\* a level set is returned for a snapshot with a call that lacks gamma and
\* passes the filter (kept with gamma 0, exposure 0), a contract that lacks
\* openInterest, or both, next to a complete contract that is aggregated
C20_Witness ==
    /\ version = "v2.3"
    /\ Returned
    /\ \E c \in Range(StrikesOf(data.callExpDateMap, 0)) :
          /\ "gamma" \notin DOMAIN c
          /\ "openInterest" \in DOMAIN c
          /\ c.openInterest >= MINIMUM_OI
          /\ Agg(c.strike).call_oi = c.openInterest
          /\ Agg(c.strike).call_gex = 0
    /\ \E c \in Range(StrikesOf(data.putExpDateMap, 0)) :
          /\ Complete(c)
          /\ c.openInterest >= MINIMUM_OI
          /\ Agg(c.strike).put_gex < 0



----------------------------------------------------------------------------
(* C21 *)

\* nothing loaded, an empty structure, no underlying price, or no
\* expiration map at all
Malformed(d) ==
    \/ DataFalsy(d)
    \/ "underlyingPrice" \notin DOMAIN d
    \/ {"callExpDateMap", "putExpDateMap"} \cap DOMAIN d = {}

\* no level set has been computed or returned
Rejected ==
    /\ ~ Returned
    /\ levels = NoLevels
    /\ nq_levels = NoNqLevels

\* C21: on an empty or malformed snapshot (v2.3, v2.1) the script reports the
\* error and stops: it aggregates nothing and produces no level set, in
\* particular none built from a defaulted price or from default levels.
C21_MalformedSnapshotRejected ==
    (version \in {"v2.1", "v2.3"} /\ Malformed(data)) => Rejected



----------------------------------------------------------------------------
(* C22 *)

\* the returned dict has the key and its value is True
Flag(name) == name \in DOMAIN levels /\ levels[name] = TRUE

\* no 0DTE expiration was found and the nearest one was taken
Substituted == dte_0_exp # None /\ dte_0_exp # 0

\* no contract passed the activity filter
NoSurvivor == strikes_data = <<>>

\* C22: the level set v2.3 returns carries substituted = true whenever the
\* nearest expiration replaced a missing 0DTE one, and degraded = true
\* whenever no strike survived the activity filter.
C22_DiagnosticFlags ==
    (version = "v2.3" /\ Returned) =>
        /\ Substituted => Flag("substituted")
        /\ NoSurvivor => Flag("degraded")



----------------------------------------------------------------------------
(* C23 *)

FiveLevels == {"call_oi", "pos_gex", "zero_gamma", "neg_gex", "put_oi"}

\* C23: the conversion maps the five levels and nothing else: the mapped set
\* has exactly the five level names, and after the conversion the level set
\* still holds the unscaled price, the unscaled net exposure (v2.3) and the
\* expiration key (v2.3).
C23_OnlyFiveLevelsMapped ==
    (Converted /\ version \in {"v1", "v2.3"}) =>
        /\ DOMAIN nq_levels = FiveLevels
        /\ levels.qqq_price = underlying_price
        /\ version = "v2.3" =>
              /\ levels.net_gex = R(ExposureSum(FilteredStrikes))
              /\ levels.expiration_used = dte_0_exp

\* a v2.3 level set with a non-zero net exposure has been converted and a
\* level was moved by the mapping
C23_Witness ==
    /\ Converted
    /\ version = "v2.3"
    /\ levels.net_gex.num # 0
    /\ nq_levels.call_oi # levels.call_oi
    /\ nq_levels.call_oi # None



----------------------------------------------------------------------------
(* C24 *)

\* the level set calculate_gex_levels (v2.3) returns for the snapshot d when
\* nothing else runs
AloneLevels(d) ==
    LET p   == DataGet(d, "underlyingPrice", DefaultUnderlying("v2.3"))
        exp == get_0dte_expiration(d)
        sd  == ProcessStrikes(
                   ProcessStrikes(<<>>, StrikesOf(ExpMap(d, "callExpDateMap"), exp),
                                  "call", "v2.3", p),
                   StrikesOf(ExpMap(d, "putExpDateMap"), exp), "put", "v2.3", p)
    IN  [call_oi         |-> MaxLevel(sd, "call_oi", p),
         put_oi          |-> MaxLevel(sd, "put_oi", p),
         pos_gex         |-> MaxLevel(sd, "call_gex", p),
         neg_gex         |-> MinLevel(sd, "put_gex", p),
         zero_gamma      |-> interpolate_zero_gamma_debug(sd, p),
         qqq_price       |-> p,
         net_gex         |-> R(NetGex(sd)),
         expiration_used |-> exp]

----------------------------------------------------------------------------
(* C26 *)

\* C26: when v2.2 aggregates several expirations, every strike aggregate has
\* call_gex = call_gamma * call_oi * 100 * price^2 * 0.01 and
\* put_gex = -(put_gamma * put_oi * 100 * price^2 * 0.01) on its own summed
\* fields.
C26_ExposureOfSummedFields ==
    (Aggregated /\ version = "v2.2") =>
        \A s \in AggStrikes :
            /\ Agg(s).call_gex =
                   FullGex(Agg(s).call_gamma, Agg(s).call_oi, underlying_price)
            /\ Agg(s).put_gex =
                   -FullGex(Agg(s).put_gamma, Agg(s).put_oi, underlying_price)



----------------------------------------------------------------------------
(* C25 *)

\* get_valid_access_token has returned
Answered == auth.pc = "loaded" /\ auth.calls > 0

\* C25: whatever tokens.json holds and however the refresh request ends,
\* get_valid_access_token (and get_token) returns None or an access token
\* for which is_access_token_valid holds at the moment of return.
C25_ReturnedTokenIsValid ==
    [][(auth.pc = "loaded" /\ auth'.calls = auth.calls + 1) =>
          \/ auth'.result = NoToken
          \/ /\ auth'.result = auth'.access_token
             /\ is_access_token_valid(auth', auth'.now)]_vars



----------------------------------------------------------------------------
(* C29 *)

\* the object's tokens and expiry, and tokens.json
TokenState(a) == <<a.access_token, a.refresh_token, a.token_expiry, a.token_file>>

\* the stored access token is present and now is before expiry minus 2 minutes
StillValid(a) ==
    a.access_token # NoToken /\ a.token_expiry # None /\ a.now + 2 < a.token_expiry

\* the refresh request of the call ended in an exception, a status other
\* than 200, or a response save_tokens could not read
RequestFailed(r) == r.status \in {0, 401} \/ (r.status = 200 /\ ~ r.complete)

\* C29: a call of get_valid_access_token whose refresh request fails returns
\* None and leaves access token, refresh token, expiry and tokens.json as
\* they were; a call made while the access token is valid sends no refresh
\* request, returns that token and leaves the token state as it was.
C29_FailedRefreshChangesNothing ==
    [][(auth.pc = "loaded" /\ auth'.calls = auth.calls + 1) =>
          /\ (~ StillValid(auth) /\ RequestFailed(auth'.response)) =>
                /\ auth'.result = NoToken
                /\ TokenState(auth') = TokenState(auth)
          /\ StillValid(auth) =>
                /\ auth'.requests = auth.requests
                /\ auth'.result = auth.access_token
                /\ TokenState(auth') = TokenState(auth)]_vars

\* a call found the stored token expired, the refresh request came back with
\* status 401, and the old tokens are still in the object and in the file
C29_Witness ==
    /\ Answered
    /\ auth.response.status = 401
    /\ auth.requests > 0
    /\ auth.result = NoToken
    /\ auth.access_token = "a0"
    /\ FileExists(auth.token_file)
    /\ auth.token_file.access_token = "a0"



----------------------------------------------------------------------------
(* C27 *)

WithinRounding(z, s) ==
    RatLE(RatMul(R(Pow2(MantissaBits)), RatAbs(RatSub(z, R(s)))), R(4 * s))

----------------------------------------------------------------------------
(* C28 *)

\* the DTE keys of the call-side and of the put-side map of the snapshot
CallKeys == Range(ExpKeys(ExpMap(data, "callExpDateMap")))
PutKeys == Range(ExpKeys(ExpMap(data, "putExpDateMap")))

\* the selection as the call-side keys alone determine it: 0 when listed,
\* otherwise the least DTE
CallSideSelection ==
    IF 0 \in CallKeys THEN 0
    ELSE CHOOSE k \in CallKeys : \A j \in CallKeys : k <= j

\* the put contracts the snapshot lists under the key k that pass the filter
PutsUnder(k) ==
    LET pm == ExpMap(data, "putExpDateMap")
    IN  UNION { { c \in Range(pm[i].strikes) : Get(c, "openInterest") >= MINIMUM_OI } :
                i \in {j \in DOMAIN pm : pm[j].exp = k} }

\* puts have been processed
PutsProcessed == pc \in {"levels", "zero", "done", "converted"}

\* C28: v2.3 selects the expiration from the call-side map alone, reads the
\* put contracts under that same key (every put field zero when the put map
\* lacks it), and produces no level set when the call map is missing or
\* empty, whatever the put map holds.
C28_SelectionFromCallSideOnly ==
    version = "v2.3" =>
        /\ (CallKeys # {} /\ pc # "calls") => dte_0_exp = CallSideSelection
        /\ (CallKeys # {} /\ PutsProcessed) =>
              /\ \A i \in DOMAIN strikes_data :
                    LET e == strikes_data[i]
                    IN  IF \E c \in PutsUnder(CallSideSelection) : c.strike = e.strike
                        THEN \E c \in PutsUnder(CallSideSelection) :
                                /\ c.strike = e.strike
                                /\ e.put_oi = Get(c, "openInterest")
                                /\ e.put_gamma = Get(c, "gamma")
                        ELSE e.put_oi = 0 /\ e.put_gamma = 0 /\ e.put_gex = 0
              /\ \A c \in PutsUnder(CallSideSelection) :
                    \E i \in DOMAIN strikes_data : strikes_data[i].strike = c.strike
        /\ CallKeys = {} =>
              /\ pc \in {"calls", "failed"}
              /\ levels = NoLevels
              /\ nq_levels = NoNqLevels

\* a level set was returned from a snapshot whose put map lists, under an
\* expiration of its own only, a contract that passes the filter, lacks the
\* selected key, and left every put field of the aggregate at zero
C28_Witness ==
    /\ version = "v2.3"
    /\ Returned
    /\ strikes_data # <<>>
    /\ dte_0_exp \notin PutKeys
    /\ \E k \in PutKeys \ CallKeys : PutsUnder(k) # {}
    /\ \A i \in DOMAIN strikes_data : strikes_data[i].put_oi = 0



----------------------------------------------------------------------------
(* C30 *)

\* the level k of the level set as a fraction (qqq_strike of the loop)
LevelValue(k) == IF k = "zero_gamma" THEN levels[k] ELSE R(levels[k])

\* C30: with a positive ratio the conversion of v2.1 and v2.3 is monotone:
\* two levels a <= b of the level set map to values mapped(a) <= mapped(b).
C30_MappingIsMonotone ==
    (pc = "converted" /\ version \in {"v2.1", "v2.3"} /\ ratio.num > 0) =>
        \A j, k \in FiveLevels :
            RatLE(LevelValue(j), LevelValue(k)) => nq_levels[j] <= nq_levels[k]

\* a converted level set with two levels a < b kept strictly apart and two
\* different levels collapsed to one value
C30_Witness ==
    /\ pc = "converted" /\ version \in {"v2.1", "v2.3"} /\ ratio.num > 0
    /\ \E j, k \in FiveLevels :
          /\ ~RatLE(LevelValue(k), LevelValue(j))
          /\ nq_levels[j] < nq_levels[k]
    /\ \E j, k \in FiveLevels :
          /\ ~RatLE(LevelValue(k), LevelValue(j))
          /\ nq_levels[j] = nq_levels[k]



----------------------------------------------------------------------------
(* C4 in floating point *)

====
